---- MODULE Spec2Model ----
(***************************************************************************)
(* A model of app.py: the /process pipeline (page-selection parsing, file  *)
(* upload, OCR extraction, prompt round trip through GPT4o.chat, code      *)
(* extraction and in-process execution), the OAuth2 web flow with the      *)
(* two-tier credential lookup, and the persisted-exchange stores.          *)
(*                                                                         *)
(* Texts are sequences of tokens (strings).  A page-selection string and   *)
(* an upload filename are sequences of one-character tokens, so that       *)
(* split / strip / isdigit / int / rsplit / secure_filename are computed   *)
(* and not assumed.                                                        *)
(***************************************************************************)
EXTENDS Integers, Sequences, FiniteSets, TLC

(***************************************************************************)
(* Bounds of the model                                                     *)
(***************************************************************************)
\* pages of an uploaded PDF / converted DOCX: 0..MaxPages
MaxPages == 2
\* a chat turn is made while the context is shorter
MaxContext == 3
\* a request is served while the context is shorter
MaxHistory == 3
\* the same, where every page-selection string is tried
MaxHistorySelection == 1
\* the clock runs 0..MaxClock
MaxClock == 2
\* the longest response text, in tokens, handed to extract_code on its own
MaxResponse == 6

(***************************************************************************)
(* Program constants                                                       *)
(***************************************************************************)
\* app.py:300  len(selected_pages) > 2
MaxSelected == 2

ALLOWED_EXTENSIONS == {"png", "jpg", "jpeg", "gif", "pdf", "docx"}

Store4o == "gpt4oContext1.json"
Store4oMini == "gpt4oMiniContext1.json"
Store35 == "gpt3pt5TurboContext1.json"
StoreNames == {Store4o, Store4oMini, Store35}

(***************************************************************************)
(* Generic sequence helpers                                                *)
(***************************************************************************)
RECURSIVE Join(_, _)
\* sep.join(parts), parts a sequence of token sequences
Join(parts, sep) ==
  IF parts = <<>> THEN <<>>
  ELSE IF Len(parts) = 1 THEN parts[1]
  ELSE parts[1] \o sep \o Join(Tail(parts), sep)

\* every sequence over S of length lo..hi
SeqsUpTo(S, lo, hi) == UNION {[1..n -> S] : n \in lo..hi}

IndexOf(s, c) ==
  IF \E i \in 1..Len(s) : s[i] = c
  THEN CHOOSE i \in 1..Len(s) : s[i] = c /\ \A j \in 1..(i - 1) : s[j] # c
  ELSE 0

LastIndexOf(s, c) ==
  IF \E i \in 1..Len(s) : s[i] = c
  THEN CHOOSE i \in 1..Len(s) : s[i] = c /\ \A j \in (i + 1)..Len(s) : s[j] # c
  ELSE 0

(***************************************************************************)
(* Python string operations used by process() on the page selection        *)
(***************************************************************************)
DigitChars == <<"0", "1", "2", "3", "4", "5", "6", "7", "8", "9">>
\* U+00B2: str.isdigit() is true of it, int() rejects it
SuperTwo == "sup2"
Whitespace == {" ", "\n"}

RECURSIVE Split(_, _)
\* s.split(sep) for a one-character separator
Split(s, sep) ==
  LET i == IndexOf(s, sep) IN
  IF i = 0 THEN <<s>>
  ELSE <<SubSeq(s, 1, i - 1)>> \o Split(SubSeq(s, i + 1, Len(s)), sep)

RECURSIVE LStrip(_)
LStrip(s) == IF s # <<>> /\ s[1] \in Whitespace THEN LStrip(Tail(s)) ELSE s

RECURSIVE RStrip(_)
RStrip(s) ==
  IF s # <<>> /\ s[Len(s)] \in Whitespace THEN RStrip(SubSeq(s, 1, Len(s) - 1)) ELSE s

\* s.strip()
Strip(s) == LStrip(RStrip(s))

IsDecimalChar(c) == \E d \in 1..10 : DigitChars[d] = c

\* s.isdigit(): non-empty and every character a digit character
IsDigit(s) == s # <<>> /\ \A i \in 1..Len(s) : IsDecimalChar(s[i]) \/ s[i] = SuperTwo

\* int(s) raises ValueError
IntRaises(s) == s = <<>> \/ \E i \in 1..Len(s) : ~IsDecimalChar(s[i])

DigitVal(c) == (CHOOSE d \in 1..10 : DigitChars[d] = c) - 1

RECURSIVE IntOf(_)
\* int(s) of a string of decimal digits
IntOf(s) ==
  IF s = <<>> THEN 0
  ELSE 10 * IntOf(SubSeq(s, 1, Len(s) - 1)) + DigitVal(s[Len(s)])

RECURSIVE StrOf(_)
\* f"{n}" of a non-negative integer
StrOf(n) == IF n < 10 THEN <<DigitChars[n + 1]>> ELSE StrOf(n \div 10) \o <<DigitChars[(n % 10) + 1]>>

(***************************************************************************)
(* Upload filenames: allowed_file, secure_filename, the extension          *)
(***************************************************************************)
\* a character that NFKD normalisation turns into no ASCII character (U+6587)
NonAscii == "U+6587"

Lower(c) == IF c = "PDF" THEN "pdf" ELSE c

\* filename.rsplit('.', 1): one part when there is no dot, else two
RSplitDot(name) ==
  LET i == LastIndexOf(name, ".") IN
  IF i = 0 THEN <<name>>
  ELSE <<SubSeq(name, 1, i - 1), SubSeq(name, i + 1, Len(name))>>

\* the extension token after the last dot, lower-cased ("" when the part is empty)
ExtOf(name) ==
  LET part == RSplitDot(name)[2] IN
  IF part = <<>> THEN "" ELSE Lower(part[Len(part)])

allowed_file(filename) ==
  /\ \E i \in 1..Len(filename) : filename[i] = "."
  /\ ExtOf(filename) \in ALLOWED_EXTENSIONS

RECURSIVE StripDots(_)
\* str.strip("._")
StripDots(s) ==
  IF s # <<>> /\ s[1] \in {".", "_"} THEN StripDots(Tail(s))
  ELSE IF s # <<>> /\ s[Len(s)] \in {".", "_"} THEN StripDots(SubSeq(s, 1, Len(s) - 1))
  ELSE s

IsAscii(c) == c # NonAscii

\* werkzeug.utils.secure_filename: the name is NFKD-normalised and encoded to
\* ASCII with what does not fit dropped, then leading and trailing dots and
\* underscores are stripped
secure_filename(filename) == StripDots(SelectSeq(filename, IsAscii))

\* str.endswith of a path on a dot followed by an extension
EndsWithExt(path, ext) ==
  /\ Len(path) >= 2
  /\ path[Len(path) - 1] = "."
  /\ Lower(path[Len(path)]) = ext

(***************************************************************************)
(* ocr_image                                                               *)
(***************************************************************************)
\* what pytesseract reads on original page p of a document
PageText(p) == <<"text of page ">> \o StrOf(p)

\* the text of a single image
ImageText == <<"text of image">>

\* pdf_images after the selected_pages filter: the images are named by
\* their original page numbers 1..n
RECURSIVE FilterPages(_, _)
FilterPages(selected_pages, n) ==
  IF selected_pages = <<>> THEN <<>>
  ELSE (IF 1 <= selected_pages[1] /\ selected_pages[1] <= n
        THEN <<selected_pages[1]>> ELSE <<>>)
       \o FilterPages(Tail(selected_pages), n)

pdf_images(selected_pages, n) ==
  IF selected_pages # <<>> THEN FilterPages(selected_pages, n) ELSE [i \in 1..n |-> i]

\* the loop over enumerate(pdf_images, start=1)
RECURSIVE PageLoop(_, _)
PageLoop(images, page_number) ==
  IF images = <<>> THEN <<>>
  ELSE <<"--- Page ">> \o StrOf(page_number) \o <<" ---", "\n">>
       \o PageText(images[1]) \o <<"\n">>
       \o PageLoop(Tail(images), page_number + 1)

\* A document is [pages, fault]: fault names the step that raises on it,
\* "convert" (docx2pdf), "raster" (convert_from_path), "ocr" (pytesseract), or "none".
\* kind is "pdf", "docx" or "image" (the else branches).
\* The result is the returned text with what became of the intermediate PDF.
ocr_image(kind, doc, selected_pages) ==
  IF kind = "pdf" THEN
    [text |-> IF doc.fault \in {"raster", "ocr"} THEN <<>>
              ELSE PageLoop(pdf_images(selected_pages, doc.pages), 1),
     temp_pdf |-> "none"]
  ELSE IF kind = "docx" THEN
    IF doc.fault = "convert" THEN [text |-> <<>>, temp_pdf |-> "none"]
    ELSE IF doc.fault = "raster" THEN [text |-> <<>>, temp_pdf |-> "left"]
    ELSE IF doc.fault = "ocr" /\ pdf_images(selected_pages, doc.pages) # <<>>
      THEN [text |-> <<>>, temp_pdf |-> "left"]
    ELSE [text |-> PageLoop(pdf_images(selected_pages, doc.pages), 1),
          temp_pdf |-> "removed"]
  ELSE
    [text |-> IF doc.fault = "none" THEN ImageText ELSE <<>>, temp_pdf |-> "none"]

\* which branch of ocr_image a path takes
PathKind(path) ==
  IF EndsWithExt(path, "pdf") THEN "pdf"
  ELSE IF EndsWithExt(path, "docx") THEN "docx"
  ELSE "image"

\* combine_inputs that joins both parts whether or not they are empty
combine_inputs_AlwaysJoin(user_input, ocr_text) ==
  Join(<<user_input, ocr_text>>, <<" ">>)

combine_inputs(user_input, ocr_text) ==
  Join((IF user_input # <<>> THEN <<user_input>> ELSE <<>>)
       \o (IF ocr_text # <<>> THEN <<ocr_text>> ELSE <<>>), <<" ">>)

(***************************************************************************)
(* GPT4o: the conversation context and the persisted-exchange stores       *)
(***************************************************************************)
\* Python's None where a text is expected
PyNone == <<"<None>">>

\* falsy as a response: None or the empty string
Falsy(t) == t = PyNone \/ t = <<>>

\* a JSON file: whether it exists, and the mapping it holds
AbsentFile == [exists |-> FALSE, data |-> <<>>]
EmptyStore == [exists |-> TRUE, data |-> <<>>]

\* data[input_text] = output_text
Upsert(data, k, v) == [x \in (DOMAIN data) \cup {k} |-> IF x = k THEN v ELSE data[x]]

\* GPT4o.save_to_json on the instance's json_file
save_to_json(sts, input_text, output_text, save) ==
  IF save
  THEN [sts EXCEPT ![Store4o] =
          [exists |-> TRUE,
           data |-> Upsert(IF sts[Store4o].exists THEN sts[Store4o].data ELSE <<>>,
                           input_text, output_text)]]
  ELSE sts

\* clear_json_files that clears the instance's own file alone
clear_json_files_OwnOnly(sts, json_files) ==
  [f \in DOMAIN sts |-> IF f \in json_files /\ f = Store4o THEN EmptyStore ELSE sts[f]]

\* GPT4o.clear_json_files
clear_json_files(sts, json_files) ==
  [f \in DOMAIN sts |-> IF f \in json_files THEN EmptyStore ELSE sts[f]]

SystemMessage == [role |-> "system", content |-> <<"You are a helpful assistant.">>]

\* the context as chat() hands it to the service: seeded, user message appended
ContextSent(ctx, message) ==
  (IF ctx = <<>> THEN <<SystemMessage>> ELSE ctx)
    \o <<[role |-> "user", content |-> (IF message = PyNone THEN <<>> ELSE message) \o <<" ">>]>>

\* GPT4o.chat.  outcome is what client.chat.completions.create does: it raises
\* ([raises |-> TRUE]) or returns a message content (a text or None).
\* The result: the context and stores left behind, whether chat raised, its value.
chat(ctx, sts, message, save, outcome) ==
  LET msg == (IF message = PyNone THEN <<>> ELSE message) \o <<" ">>
      sent == ContextSent(ctx, message)
  IN IF outcome.raises
     THEN [context |-> sent, stores |-> sts, raised |-> TRUE, value |-> PyNone,
           sent |-> sent]
     ELSE [context |-> Append(sent, [role |-> "assistant", content |-> outcome.content]),
           stores |-> IF save
                      THEN save_to_json(sts, msg, outcome.content, save)
                      ELSE clear_json_files(save_to_json(sts, msg, outcome.content, save),
                                            StoreNames),
           raised |-> FALSE, value |-> outcome.content, sent |-> sent]

\* get_gpt4o_response on the module's gpt4o instance
get_gpt4o_response(ctx, sts, input_text, outcome) ==
  LET r == chat(ctx, sts, input_text, FALSE, outcome) IN
  [context |-> r.context, stores |-> r.stores, sent |-> r.sent,
   value |-> IF r.raised THEN PyNone
             ELSE IF Falsy(r.value) THEN PyNone
             ELSE Strip(r.value)]

(***************************************************************************)
(* extract_code, on tokens: a fence token opens or closes a block          *)
(***************************************************************************)
\* the three back-ticks followed by the word python
FencePython == "<fence>python"
\* three back-ticks alone
Fence == "<fence>"

\* the tokens in which the three back-ticks of the closing fence can match
ClosesFence(t) == t \in {Fence, FencePython}

\* extract_code with a greedy interior: the match runs to the last three back-ticks
extract_code_Greedy(response_text) ==
  LET open == IndexOf(response_text, FencePython)
      rest == SubSeq(response_text, open + 1, Len(response_text))
      close == IF \E i \in 1..Len(rest) : ClosesFence(rest[i])
               THEN CHOOSE i \in 1..Len(rest) :
                      ClosesFence(rest[i]) /\ \A j \in (i + 1)..Len(rest) : ~ClosesFence(rest[j])
               ELSE 0
  IN IF open = 0 \/ close = 0 THEN <<>>
     ELSE Strip(SubSeq(rest, 1, close - 1))

\* extract_code(response_text); raises TypeError on None
extract_code(response_text) ==
  LET open == IndexOf(response_text, FencePython)
      rest == SubSeq(response_text, open + 1, Len(response_text))
      close == IF \E i \in 1..Len(rest) : ClosesFence(rest[i])
               THEN CHOOSE i \in 1..Len(rest) :
                      ClosesFence(rest[i]) /\ \A j \in 1..(i - 1) : ~ClosesFence(rest[j])
               ELSE 0
  IN IF open = 0 \/ close = 0 THEN <<>>
     ELSE Strip(SubSeq(rest, 1, close - 1))

(***************************************************************************)
(* exec of the generated script under redirect_stdout                      *)
(***************************************************************************)
StmtPrint == "print('X')"
StmtRaise == "raise ValueError('boom')"
StmtRaiseEmpty == "raise Exception()"
StmtExit == "import sys; sys.exit(1)"

\* Runs the statements in order. fault is "none", "Exception" (a subclass of
\* Exception) or "BaseException" (SystemExit, KeyboardInterrupt: not one).
RECURSIVE RunScript(_, _)
RunScript(code, out) ==
  IF code = <<>> THEN [stdout |-> out, fault |-> "none", msg |-> <<>>]
  ELSE IF code[1] = StmtPrint THEN RunScript(Tail(code), out \o <<"X", "\n">>)
  ELSE IF code[1] \in Whitespace THEN RunScript(Tail(code), out)
  ELSE IF code[1] = StmtRaise THEN [stdout |-> out, fault |-> "Exception", msg |-> <<"boom">>]
  ELSE IF code[1] = StmtRaiseEmpty THEN [stdout |-> out, fault |-> "Exception", msg |-> <<>>]
  ELSE IF code[1] = StmtExit THEN [stdout |-> out, fault |-> "BaseException", msg |-> <<"1">>]
  ELSE [stdout |-> <<>>, fault |-> "Exception", msg |-> <<"invalid syntax">>]

\* whether the except clause of process() catches a fault of this class
ExceptCatches(fault) == fault = "Exception"

\* lines 390-398 of process(): the execution output, or the fault that escapes
Execute(generated_code) ==
  IF generated_code = <<>> THEN [ran |-> FALSE, escaped |-> FALSE, output |-> <<>>]
  ELSE LET r == RunScript(generated_code, <<>>) IN
       IF r.fault = "none" THEN [ran |-> TRUE, escaped |-> FALSE, output |-> r.stdout]
       ELSE IF ExceptCatches(r.fault)
         THEN [ran |-> TRUE, escaped |-> FALSE, output |-> <<"Execution Error: ">> \o r.msg]
       ELSE [ran |-> TRUE, escaped |-> TRUE, output |-> <<>>]

(***************************************************************************)
(* Credentials                                                             *)
(***************************************************************************)
\* a Credentials object without an expiry
NoExpiry == -1

\* no credential (None, a missing session key, a missing token.json)
NoCred == [present |-> FALSE, token |-> "", expiry |-> NoExpiry]

\* Credentials.valid at time now: a token that is not expired; a credential
\* without an expiry never counts as expired
Valid(creds, now) ==
  /\ creds.present
  /\ creds.token # ""
  /\ (creds.expiry = NoExpiry \/ now < creds.expiry)

\* credentials_to_dict followed by Credentials(**dict): the six fields of the
\* dictionary are kept, the expiry is not among them
credentials_to_dict(creds) == [present |-> TRUE, token |-> creds.token, expiry |-> NoExpiry]

\* creds.to_json() read back by Credentials.from_authorized_user_file: the
\* JSON carries the expiry
to_json(creds) == [present |-> TRUE, token |-> creds.token, expiry |-> creds.expiry]

\* get_credentials that reads token.json without writing the session
get_credentials_NoPromotion(sess, token_json, now) ==
  LET creds == IF sess.credentials.present THEN sess.credentials
               ELSE IF token_json.present THEN token_json
               ELSE NoCred
  IN [ret |-> IF ~creds.present \/ ~Valid(creds, now) THEN NoCred ELSE creds,
      session |-> sess]

\* get_credentials(): the value returned and the session slot left behind
get_credentials(sess, token_json, now) ==
  LET creds == IF sess.credentials.present THEN sess.credentials
               ELSE IF token_json.present THEN token_json
               ELSE NoCred
      sess2 == IF ~sess.credentials.present /\ token_json.present
               THEN [sess EXCEPT !.credentials = credentials_to_dict(creds)]
               ELSE sess
  IN [ret |-> IF ~creds.present \/ ~Valid(creds, now) THEN NoCred ELSE creds,
      session |-> sess2]

\* Flow.fetch_token(authorization_response=request.url) of a flow built with
\* state=session.get('state'): the state of the response is compared with the
\* flow's state only when the flow has one
StateAccepted(flow_state, response_state) ==
  flow_state = "none" \/ response_state = flow_state

(***************************************************************************)
(* Inputs                                                                  *)
(***************************************************************************)
UserInputs == {<<>>, <<"Lunch with Sam next Tuesday at noon">>}

\* the comma-separated entries a page-selection string is built from
SelTokens ==
  {<<"1">>, <<"2">>, <<" ", "3">>, <<"1", "0">>, <<"0">>, <<"a">>, <<"-", "1">>, <<>>,
   <<SuperTwo>>}

\* every selection string of 1..MaxSelected+1 entries, and the empty string
SelStrings ==
  {<<>>, <<"1", ",", "2", ",", "3", ",", SuperTwo>>}
    \cup {Join(ts, <<",">>) : ts \in SeqsUpTo(SelTokens, 1, MaxSelected + 1)}

\* a few selection strings, one of each outcome
SelBasic ==
  {<<>>, <<"2">>, <<"2", ",", "1">>, <<"1", ",", "2", ",", "2">>,
   <<"1", ",", "a">>, <<"0">>, <<SuperTwo>>}

Faults == {"none", "convert", "raster", "ocr"}
Docs == [pages : 0..MaxPages, fault : Faults]

NoFile == [present |-> FALSE, filename |-> <<>>, doc |-> [pages |-> 0, fault |-> "none"]]

Filenames ==
  {<<>>, <<"a">>, <<"a", ".", "exe">>, <<"a", ".", "pdf">>, <<"a", ".", "PDF">>,
   <<NonAscii, ".", "pdf">>, <<".", "pdf">>, <<"a", ".", "docx">>, <<"a", ".", "png">>}

Upload(filename, pages, fault) ==
  [present |-> TRUE, filename |-> filename, doc |-> [pages |-> pages, fault |-> fault]]

\* the uploads: every filename with a sound document, and the documents on
\* which a step of the extraction raises
Files ==
  {NoFile}
    \cup {Upload(n, MaxPages, "none") : n \in Filenames}
    \cup {Upload(<<"a", ".", "pdf">>, p, "none") : p \in 0..MaxPages}
    \cup {Upload(<<"a", ".", "pdf">>, MaxPages, f) : f \in {"raster", "ocr"}}
    \cup {Upload(<<"a", ".", "docx">>, MaxPages, f) : f \in Faults}
    \cup {Upload(<<"a", ".", "png">>, 1, "ocr")}

\* a few uploads: none, a PDF of MaxPages pages
FilesBasic ==
  {NoFile, [present |-> TRUE, filename |-> <<"a", ".", "pdf">>,
            doc |-> [pages |-> MaxPages, fault |-> "none"]]}

\* no upload, and the DOCX uploads: a sound one, and one for each step that raises
FilesDocx == {NoFile} \cup {Upload(<<"a", ".", "docx">>, MaxPages, f) : f \in Faults}

\* a response that carries one fenced script block
Block(code) == <<"Here:", "\n", FencePython, "\n">> \o code \o <<"\n", Fence, "\n">>

Scripts ==
  {<<>>, <<StmtPrint>>, <<StmtRaise>>, <<StmtRaiseEmpty>>, <<StmtExit>>,
   <<StmtPrint, "\n", StmtRaise>>}

Responses == {PyNone, <<>>, <<" ">>, <<"Sorry">>} \cup {Block(c) : c \in Scripts}

LlmOutcomes ==
  {[raises |-> TRUE, content |-> PyNone]} \cup [raises : {FALSE}, content : Responses]

\* a few outcomes: a fault, a response without a block, one with a block
LlmBasic ==
  {[raises |-> TRUE, content |-> PyNone]}
    \cup [raises : {FALSE}, content : {<<"Sorry">>, Block(<<StmtPrint>>)}]

\* the tokens of a response text handed to extract_code
ResponseTokens == {FencePython, Fence, "\n", StmtPrint, "Sorry"}

\* every response text of at most MaxResponse tokens
ResponseTexts == SeqsUpTo(ResponseTokens, 0, MaxResponse)

(***************************************************************************)
(* process(): the page selection                                           *)
(***************************************************************************)
\* the filter of the list comprehension: num.strip().isdigit()
KeepEntry(num) == IsDigit(Strip(num))

\* ParsePages with the limit off by one: len(selected_pages) > 3
ParsePages_LimitOffByOne(selected_pages_str) ==
  LET kept == SelectSeq(Split(selected_pages_str, ","), KeepEntry) IN
  IF selected_pages_str = <<>> THEN [status |-> "ok", pages |-> <<>>]
  ELSE IF \E i \in 1..Len(kept) : IntRaises(Strip(kept[i]))
    THEN [status |-> "Invalid page numbers entered.", pages |-> <<>>]
  ELSE IF Len(kept) > MaxSelected + 1
    THEN [status |-> "Please select a maximum of 2 pages.", pages |-> <<>>]
  ELSE [status |-> "ok", pages |-> [i \in 1..Len(kept) |-> IntOf(Strip(kept[i]))]]

\* lines 296-305: the parsed selection, or the flash message of the rejection
ParsePages(selected_pages_str) ==
  LET kept == SelectSeq(Split(selected_pages_str, ","), KeepEntry) IN
  IF selected_pages_str = <<>> THEN [status |-> "ok", pages |-> <<>>]
  ELSE IF \E i \in 1..Len(kept) : IntRaises(Strip(kept[i]))
    THEN [status |-> "Invalid page numbers entered.", pages |-> <<>>]
  ELSE IF Len(kept) > MaxSelected
    THEN [status |-> "Please select a maximum of 2 pages.", pages |-> <<>>]
  ELSE [status |-> "ok", pages |-> [i \in 1..Len(kept) |-> IntOf(Strip(kept[i]))]]

(***************************************************************************)
(* State                                                                   *)
(***************************************************************************)
VARIABLES
  pc,         \* where process() stands: "idle", "upload", "extract", "prompt", "run", "done"
  form,       \* the request: text_input, selected_pages, file_upload
  loc,        \* locals of process()
  resp,       \* what process() answered
  eff,        \* what the request in hand has done so far
  uploads,    \* the files in UPLOAD_FOLDER: name -> document
  context,    \* gpt4o.context
  stores,     \* the three persisted-exchange files
  session,    \* the Flask session: state, credentials
  token_json, \* token.json
  clock,      \* the time
  op,         \* the operation that made the last step
  threads,    \* the requests served at the same time: thread -> where it stands, its locals
  sys_stdout, \* sys.stdout of the process: the console, or the StringIO of a thread
  out         \* what the last direct call (get_credentials, chat, ocr_image, extract_code)
              \* was given and returned

vars == <<pc, form, loc, resp, eff, uploads, context, stores, session, token_json,
          clock, op, threads, sys_stdout, out>>

NoForm == [text_input |-> <<>>, selected_pages |-> <<>>, file_upload |-> NoFile]
NoLoc == [selected_pages |-> <<>>, filename |-> <<>>, ocr_text |-> <<>>,
          combined_input |-> <<>>, response_text |-> <<>>, generated_code |-> <<>>]
NoResp == [kind |-> "none", flash |-> "", fault |-> "", combined_input |-> <<>>,
           generated_code |-> <<>>, execution_output |-> <<>>]
\* sent: the context handed to the model service
NoEff == [saved |-> FALSE, ocr |-> FALSE, llm |-> FALSE, stores |-> FALSE, exec |-> FALSE,
          sent |-> <<>>]
NoOut == [call |-> "none"]

\* the threads that serve requests
Threads == {"A", "B"}

\* the original target of sys.stdout
Console == "console"

\* a thread that serves no request.  f is the StringIO of line 391 (the writes
\* it received), old the target redirect_stdout saved on entry, raised the
\* class of the fault of the script
IdleThread ==
  [pc |-> "idle", file |-> NoFile, filename |-> <<>>, ocr_text |-> <<>>,
   generated_code |-> <<>>, f |-> <<>>, old |-> Console, raised |-> "none",
   execution_output |-> <<>>, fault |-> ""]

\* token.json as an earlier run of the flow left it: none, or a token that
\* expires at time 1
StartTokens == {NoCred, [present |-> TRUE, token |-> "t0", expiry |-> 1]}

\* the persisted-exchange files at the start: none exists, or all are empty
StartStores == {[f \in StoreNames |-> AbsentFile], [f \in StoreNames |-> EmptyStore]}

\* a persisted-exchange file that holds an exchange saved by an earlier run
HeldStore == [exists |-> TRUE, data |-> (<<"earlier", " ">> :> <<"reply">>)]

\* the persisted-exchange files at the start, those left by an earlier run included
HeldStores == StartStores \cup {[f \in StoreNames |-> HeldStore]}

Start(tokens, files) ==
  /\ pc = "idle"
  /\ form = NoForm
  /\ loc = NoLoc
  /\ resp = NoResp
  /\ eff = NoEff
  /\ uploads = <<>>
  /\ context = <<>>
  /\ stores \in files
  /\ session = [state |-> "none", credentials |-> NoCred]
  /\ token_json \in tokens
  /\ clock = 0
  /\ op = "none"
  /\ threads = [t \in Threads |-> IdleThread]
  /\ sys_stdout = Console
  /\ out = NoOut

Init == Start(StartTokens, StartStores)

\* a first deployment: no token.json, no persisted-exchange file
InitFresh == Start({NoCred}, {[f \in StoreNames |-> AbsentFile]})

\* a deployment whose working directory may hold the files of an earlier run
InitHeld == Start({NoCred}, HeldStores)

Redirect(message) == [NoResp EXCEPT !.kind = "redirect", !.flash = message]
Fault(name) == [NoResp EXCEPT !.kind = "fault", !.fault = name]

(***************************************************************************)
(* process(), lines 293-305: a request arrives, its selection is parsed    *)
(***************************************************************************)
Begin(sels, files, history) ==
  /\ pc = "idle"
  /\ Len(context) < history
  /\ \E u \in UserInputs, s \in sels, f \in files :
       LET parsed == ParsePages(s) IN
       /\ form' = [text_input |-> u, selected_pages |-> s, file_upload |-> f]
       /\ loc' = [NoLoc EXCEPT !.selected_pages = parsed.pages]
       /\ resp' = IF parsed.status = "ok" THEN NoResp ELSE Redirect(parsed.status)
       /\ pc' = IF parsed.status = "ok" THEN "upload" ELSE "done"
  /\ eff' = NoEff
  /\ op' = "process"
  /\ UNCHANGED <<uploads, context, stores, session, token_json, clock, out>>
  /\ UNCHANGED <<threads, sys_stdout>>

(***************************************************************************)
(* lines 306-314: the upload is checked and saved                          *)
(***************************************************************************)
SaveUpload ==
  /\ pc = "upload"
  /\ LET file == form.file_upload
         filename == secure_filename(file.filename)
     IN IF ~file.present \/ file.filename = <<>>
        THEN /\ pc' = "prompt"
             /\ UNCHANGED <<loc, resp, eff, uploads>>
        ELSE IF ~allowed_file(file.filename)
        THEN /\ pc' = "done"
             /\ resp' = Redirect("File type not allowed!")
             /\ UNCHANGED <<loc, eff, uploads>>
        ELSE \* file.save(file_path), then filename.rsplit('.', 1)[1]
             /\ uploads' = Upsert(uploads, filename, file.doc)
             /\ eff' = [eff EXCEPT !.saved = TRUE]
             /\ loc' = [loc EXCEPT !.filename = filename]
             /\ IF Len(RSplitDot(filename)) < 2
                THEN pc' = "done" /\ resp' = Fault("IndexError")
                ELSE pc' = "extract" /\ UNCHANGED resp
  /\ op' = "process"
  /\ UNCHANGED <<form, context, stores, session, token_json, clock, out>>
  /\ UNCHANGED <<threads, sys_stdout>>

\* file_path.rsplit('.', 1)[0] + '_temp.pdf'
TempPdf(path) == RSplitDot(path)[1] \o <<"_temp", ".", "pdf">>

\* the mapping d without key k
Without(d, k) == [x \in (DOMAIN d) \ {k} |-> d[x]]

(***************************************************************************)
(* lines 315-320: the text is extracted, the upload removed                *)
(***************************************************************************)
Extract ==
  /\ pc = "extract"
  /\ LET ext == ExtOf(loc.filename)
         kind == IF ext \in {"pdf", "docx"} THEN PathKind(loc.filename) ELSE "image"
         pages == IF ext \in {"pdf", "docx"} THEN loc.selected_pages ELSE <<>>
         r == ocr_image(kind, uploads[loc.filename], pages)
     IN /\ loc' = [loc EXCEPT !.ocr_text = r.text]
        /\ uploads' = Without(IF r.temp_pdf = "left"
                              THEN Upsert(uploads, TempPdf(loc.filename), uploads[loc.filename])
                              ELSE uploads,
                              loc.filename)
  /\ eff' = [eff EXCEPT !.ocr = TRUE]
  /\ pc' = "prompt"
  /\ op' = "process"
  /\ UNCHANGED <<form, resp, context, stores, session, token_json, clock, out>>
  /\ UNCHANGED <<threads, sys_stdout>>

(***************************************************************************)
(* lines 321-389: the prompt is built, the stores that exist are cleared,  *)
(* the model is asked and the script is cut out of its response            *)
(***************************************************************************)
Prompt(combined_input) == <<"Generate a Python script ... : ">> \o combined_input \o <<".", "\n", "Carefully meet all the criteria ...">>

\* lines 384-387
ClearExisting(sts) ==
  [f \in DOMAIN sts |-> IF f \in {Store4o, Store4oMini} /\ sts[f].exists
                        THEN EmptyStore ELSE sts[f]]

Ask(outcomes) ==
  /\ pc = "prompt"
  /\ \E outcome \in outcomes :
       LET combined_input == combine_inputs(form.text_input, loc.ocr_text)
           g == get_gpt4o_response(context, ClearExisting(stores),
                                   Prompt(combined_input), outcome)
       IN /\ context' = g.context
          /\ stores' = g.stores
          /\ eff' = [eff EXCEPT !.llm = TRUE,
                                !.sent = g.sent,
                                !.stores = ~outcome.raises
                                   \/ \E f \in {Store4o, Store4oMini} : stores[f].exists]
          /\ IF g.value = PyNone
             THEN \* re.search on None
                  /\ loc' = [loc EXCEPT !.combined_input = combined_input,
                                        !.response_text = g.value]
                  /\ resp' = Fault("TypeError")
                  /\ pc' = "done"
             ELSE /\ loc' = [loc EXCEPT !.combined_input = combined_input,
                                        !.response_text = g.value,
                                        !.generated_code = extract_code(g.value)]
                  /\ UNCHANGED resp
                  /\ pc' = "run"
  /\ op' = "process"
  /\ UNCHANGED <<form, uploads, session, token_json, clock, out>>
  /\ UNCHANGED <<threads, sys_stdout>>

(***************************************************************************)
(* lines 390-402: the script runs, the result is rendered                  *)
(***************************************************************************)
Run ==
  /\ pc = "run"
  /\ LET x == Execute(loc.generated_code) IN
     /\ eff' = [eff EXCEPT !.exec = x.ran]
     /\ resp' = IF x.escaped THEN Fault("SystemExit")
                ELSE [NoResp EXCEPT !.kind = "render",
                                    !.combined_input = loc.combined_input,
                                    !.generated_code = loc.generated_code,
                                    !.execution_output = x.output]
  /\ pc' = "done"
  /\ op' = "process"
  /\ UNCHANGED <<form, loc, uploads, context, stores, session, token_json, clock, out>>
  /\ UNCHANGED <<threads, sys_stdout>>

\* the response is sent, the locals of the request are gone
Finish ==
  /\ pc = "done"
  /\ pc' = "idle"
  /\ form' = NoForm
  /\ loc' = NoLoc
  /\ resp' = NoResp
  /\ eff' = NoEff
  /\ op' = "process"
  /\ UNCHANGED <<uploads, context, stores, session, token_json, clock, out>>
  /\ UNCHANGED <<threads, sys_stdout>>

(***************************************************************************)
(* The OAuth2 web flow and get_credentials                                 *)
(***************************************************************************)
OAuthStates == {"s1", "s2"}
AccessTokens == {"t1", "t2"}

\* /authorize: the state of the authorization URL is kept in the session
Authorize ==
  /\ pc = "idle"
  /\ \E state \in OAuthStates : session' = [session EXCEPT !.state = state]
  /\ op' = "authorize"
  /\ UNCHANGED <<pc, form, loc, resp, eff, uploads, context, stores, token_json, clock, out>>
  /\ UNCHANGED <<threads, sys_stdout>>

\* /oauth2callback: response_state is the state parameter of the callback URL
\* ("none": no such parameter), granted whether the token endpoint exchanges
\* the code of the URL for a token.  Line 120 sets flow.redirect_uri inside the
\* argument list of the constructor; the handler is modelled as its statements
\* read: the flow is built with the session's state, then the token is fetched.
Callback ==
  /\ pc = "idle"
  /\ \E response_state \in OAuthStates \cup {"none"}, granted \in BOOLEAN, t \in AccessTokens :
       LET creds == [present |-> TRUE, token |-> t, expiry |-> clock + 1]
           ok == StateAccepted(session.state, response_state) /\ granted
       IN /\ session' = IF ok THEN [session EXCEPT !.credentials = credentials_to_dict(creds)]
                        ELSE session
          /\ token_json' = IF ok THEN to_json(creds) ELSE token_json
          /\ out' = [call |-> "oauth2callback", issued |-> session.state,
                     response_state |-> response_state, failed |-> ~ok]
  /\ op' = "oauth2callback"
  /\ UNCHANGED <<pc, form, loc, resp, eff, uploads, context, stores, clock>>
  /\ UNCHANGED <<threads, sys_stdout>>

\* a call of get_credentials()
GetCredentials ==
  /\ pc = "idle"
  /\ LET r == get_credentials(session, token_json, clock) IN
     /\ session' = r.session
     /\ out' = [call |-> "get_credentials", ret |-> r.ret,
                found |-> session.credentials.present \/ token_json.present,
                had |-> session.credentials.present]
  /\ op' = "get_credentials"
  /\ UNCHANGED <<pc, form, loc, resp, eff, uploads, context, stores, token_json, clock>>
  /\ UNCHANGED <<threads, sys_stdout>>

\* time passes
Tick ==
  /\ clock < MaxClock
  /\ clock' = clock + 1
  /\ op' = "tick"
  /\ UNCHANGED <<pc, form, loc, resp, eff, uploads, context, stores, session, token_json, out>>
  /\ UNCHANGED <<threads, sys_stdout>>

\* the session ends (the browser's cookie is gone); token.json stays
NewSession ==
  /\ pc = "idle"
  /\ session # [state |-> "none", credentials |-> NoCred]
  /\ session' = [state |-> "none", credentials |-> NoCred]
  /\ op' = "new_session"
  /\ UNCHANGED <<pc, form, loc, resp, eff, uploads, context, stores, token_json, clock, out>>
  /\ UNCHANGED <<threads, sys_stdout>>

(***************************************************************************)
(* Direct calls of GPT4o.chat and ocr_image                                *)
(***************************************************************************)
ChatMessages == {PyNone, <<"hi">>, <<"hi", " ">>}
ChatOutcomes ==
  {[raises |-> TRUE, content |-> PyNone]}
    \cup [raises : {FALSE}, content : {PyNone, <<"hello">>, <<"bye">>}]

\* gpt4o.chat(message, save)
Chat ==
  /\ pc = "idle"
  /\ Len(context) < MaxContext
  /\ \E message \in ChatMessages, save \in BOOLEAN, outcome \in ChatOutcomes :
       LET r == chat(context, stores, message, save, outcome) IN
       /\ context' = r.context
       /\ stores' = r.stores
       /\ out' = [call |-> "chat", message |-> message, save |-> save,
                  raised |-> r.raised, value |-> r.value, sent |-> r.sent,
                  before |-> stores]
  /\ op' = "chat"
  /\ UNCHANGED <<pc, form, loc, resp, eff, uploads, session, token_json, clock>>
  /\ UNCHANGED <<threads, sys_stdout>>

\* the lists ocr_image may be given as selected_pages
PageLists == SeqsUpTo(0..(MaxPages + 1), 0, MaxSelected)

\* ocr_image(file_path_or_object, selected_pages)
Ocr ==
  /\ pc = "idle"
  /\ out = NoOut
  /\ \E kind \in {"pdf", "docx", "image"}, doc \in Docs, selected_pages \in PageLists :
       LET r == ocr_image(kind, doc, selected_pages) IN
       out' = [call |-> "ocr_image", kind |-> kind, doc |-> doc,
               selected_pages |-> selected_pages, text |-> r.text, temp_pdf |-> r.temp_pdf]
  /\ op' = "ocr_image"
  /\ UNCHANGED <<pc, form, loc, resp, eff, uploads, context, stores, session, token_json, clock>>
  /\ UNCHANGED <<threads, sys_stdout>>

\* extract_code(response_text)
ExtractCode ==
  /\ pc = "idle"
  /\ out = NoOut
  /\ \E response_text \in ResponseTexts :
       out' = [call |-> "extract_code", response_text |-> response_text,
               value |-> extract_code(response_text)]
  /\ op' = "extract_code"
  /\ UNCHANGED <<pc, form, loc, resp, eff, uploads, context, stores, session, token_json, clock>>
  /\ UNCHANGED <<threads, sys_stdout>>

(***************************************************************************)
(* process() served by threads of one process.  A step is a stretch of     *)
(* process() that touches the file system, sys.stdout or the gpt4o         *)
(* instance once; between two steps of a thread the other thread may run.  *)
(***************************************************************************)
\* the free text of the requests served by the threads
ThreadText == <<"Lunch with Sam next Tuesday at noon">>

\* their uploads: none, two PDFs whose names differ and sanitise to a.pdf, an image
ThreadFiles ==
  {NoFile,
   Upload(<<"a", ".", "pdf">>, 1, "none"),
   Upload(<<NonAscii, "a", ".", "pdf">>, MaxPages, "none"),
   Upload(<<"a", ".", "png">>, 1, "none")}

\* what the model service does for them
ThreadOutcomes == LlmBasic \cup {[raises |-> FALSE, content |-> Block(<<StmtRaise>>)]}

\* a write to standard output: the thread that wrote, and what it wrote
Written(t, what) == [by |-> t, what |-> what]

\* print(...) by thread t: the text goes where sys.stdout points at that moment
PrintTo(thr, t, what) ==
  IF sys_stdout = Console THEN thr
  ELSE [thr EXCEPT ![sys_stdout].f = Append(@, Written(t, what))]

\* whether ocr_image prints: the page notices of the PDF branch, the error notices
OcrPrints(kind, doc, selected_pages) ==
  IF kind = "pdf"
  THEN doc.fault = "raster" \/ pdf_images(selected_pages, doc.pages) # <<>>
  ELSE IF kind = "docx"
  THEN doc.fault \in {"convert", "raster"}
         \/ (doc.fault = "ocr" /\ pdf_images(selected_pages, doc.pages) # <<>>)
  ELSE doc.fault # "none"

\* the variables no thread step writes
ThreadFrame == UNCHANGED <<pc, form, loc, resp, eff, session, token_json, clock, out>>

\* lines 293-310: the request arrives, the upload is checked and named
TBegin(t) ==
  /\ threads[t].pc = "idle"
  /\ \E file \in ThreadFiles :
       threads' = [threads EXCEPT ![t] =
         IF ~file.present \/ file.filename = <<>>
         THEN [IdleThread EXCEPT !.pc = "combine"]
         ELSE IF ~allowed_file(file.filename)
         THEN [IdleThread EXCEPT !.pc = "done", !.file = file]
         ELSE [IdleThread EXCEPT !.pc = "save", !.file = file,
                                 !.filename = secure_filename(file.filename)]]
  /\ op' = "process"
  /\ UNCHANGED <<sys_stdout, uploads, context, stores>>
  /\ ThreadFrame

\* lines 311-312: file.save(file_path), then the extension of the name
TSave(t) ==
  /\ threads[t].pc = "save"
  /\ uploads' = Upsert(uploads, threads[t].filename, threads[t].file.doc)
  /\ threads' = IF Len(RSplitDot(threads[t].filename)) < 2
                THEN [threads EXCEPT ![t].pc = "done", ![t].fault = "IndexError"]
                ELSE [threads EXCEPT ![t].pc = "extract"]
  /\ op' = "process"
  /\ UNCHANGED <<sys_stdout, context, stores>>
  /\ ThreadFrame

\* lines 313-317: the text is extracted from the file the path names now
TExtract(t) ==
  /\ threads[t].pc = "extract"
  /\ LET filename == threads[t].filename
         ext == ExtOf(filename)
         there == filename \in DOMAIN uploads
         kind == IF ext \in {"pdf", "docx"} THEN PathKind(filename) ELSE "image"
     IN IF there
        THEN LET r == ocr_image(kind, uploads[filename], <<>>)
                 thr == [threads EXCEPT ![t].pc = "remove", ![t].ocr_text = r.text]
             IN /\ threads' = IF OcrPrints(kind, uploads[filename], <<>>)
                              THEN PrintTo(thr, t, "ocr") ELSE thr
                /\ uploads' = IF r.temp_pdf = "left"
                              THEN Upsert(uploads, TempPdf(filename), uploads[filename])
                              ELSE uploads
        ELSE IF ext \in {"pdf", "docx"}
        THEN \* the converter raises on the missing file inside ocr_image's try
             /\ threads' = PrintTo([threads EXCEPT ![t].pc = "remove"], t, "ocr")
             /\ UNCHANGED uploads
        ELSE \* open(file_path, "rb") of line 316 raises in process()
             /\ threads' = [threads EXCEPT ![t].pc = "done", ![t].fault = "FileNotFoundError"]
             /\ UNCHANGED uploads
  /\ op' = "process"
  /\ UNCHANGED <<sys_stdout, context, stores>>
  /\ ThreadFrame

\* line 318: os.remove(file_path)
TRemove(t) ==
  /\ threads[t].pc = "remove"
  /\ IF threads[t].filename \in DOMAIN uploads
     THEN /\ uploads' = Without(uploads, threads[t].filename)
          /\ threads' = [threads EXCEPT ![t].pc = "combine"]
     ELSE /\ threads' = [threads EXCEPT ![t].pc = "done", ![t].fault = "FileNotFoundError"]
          /\ UNCHANGED uploads
  /\ op' = "process"
  /\ UNCHANGED <<sys_stdout, context, stores>>
  /\ ThreadFrame

\* lines 321-322: the combined input is built and printed
TCombine(t) ==
  /\ threads[t].pc = "combine"
  /\ threads' = PrintTo([threads EXCEPT ![t].pc = "send"], t, "combined")
  /\ op' = "process"
  /\ UNCHANGED <<sys_stdout, uploads, context, stores>>
  /\ ThreadFrame

\* lines 323-387, 269, 211-215: the context files are cleared, the prompt is
\* printed and appended to the context, the request to the service is made
TSend(t) ==
  /\ threads[t].pc = "send"
  /\ stores' = ClearExisting(stores)
  /\ context' = ContextSent(context, Prompt(combine_inputs(ThreadText, threads[t].ocr_text)))
  /\ threads' = PrintTo([threads EXCEPT ![t].pc = "receive"], t, "sending")
  /\ op' = "process"
  /\ UNCHANGED <<sys_stdout, uploads>>
  /\ ThreadFrame

\* lines 215-226, 270-277, 389: the service answers or raises; the script is cut out
TReceive(t) ==
  /\ threads[t].pc = "receive"
  /\ \E outcome \in ThreadOutcomes :
       LET value == IF outcome.raises \/ Falsy(outcome.content) THEN PyNone
                    ELSE Strip(outcome.content)
           code == IF value = PyNone THEN <<>> ELSE extract_code(value)
       IN /\ context' = IF outcome.raises THEN context
                        ELSE Append(context, [role |-> "assistant", content |-> outcome.content])
          /\ stores' = IF outcome.raises THEN stores ELSE clear_json_files(stores, StoreNames)
          /\ threads' = PrintTo(
               IF value = PyNone
               THEN [threads EXCEPT ![t].pc = "done", ![t].fault = "TypeError"]
               ELSE [threads EXCEPT ![t].pc = IF code # <<>> THEN "enter" ELSE "render",
                                    ![t].generated_code = code],
               t, "response")
  /\ op' = "process"
  /\ UNCHANGED <<sys_stdout, uploads>>
  /\ ThreadFrame

\* lines 391-392: f = io.StringIO(); redirect_stdout saves sys.stdout and sets it to f
TEnter(t) ==
  /\ threads[t].pc = "enter"
  /\ threads' = [threads EXCEPT ![t].pc = "exec", ![t].f = <<>>, ![t].old = sys_stdout]
  /\ sys_stdout' = t
  /\ op' = "process"
  /\ UNCHANGED <<uploads, context, stores>>
  /\ ThreadFrame

\* line 393: exec(generated_code, globals()); its prints go through sys.stdout
TExec(t) ==
  /\ threads[t].pc = "exec"
  /\ LET r == RunScript(threads[t].generated_code, <<>>)
         thr == [threads EXCEPT ![t].pc = "exit", ![t].raised = r.fault]
     IN threads' = IF r.stdout # <<>> THEN PrintTo(thr, t, "script") ELSE thr
  /\ op' = "process"
  /\ UNCHANGED <<sys_stdout, uploads, context, stores>>
  /\ ThreadFrame

\* the end of the with block: redirect_stdout sets sys.stdout to what it saved
TExit(t) ==
  /\ threads[t].pc = "exit"
  /\ sys_stdout' = threads[t].old
  /\ threads' = [threads EXCEPT ![t].pc = "render"]
  /\ op' = "process"
  /\ UNCHANGED <<uploads, context, stores>>
  /\ ThreadFrame

\* lines 394-402: f.getvalue() or the fault description, the result is rendered
TRender(t) ==
  /\ threads[t].pc = "render"
  /\ threads' =
       IF threads[t].raised = "none"
       THEN [threads EXCEPT ![t].pc = "done", ![t].execution_output = threads[t].f]
       ELSE IF ExceptCatches(threads[t].raised)
       THEN [threads EXCEPT ![t].pc = "done",
                            ![t].execution_output = <<Written(t, "Execution Error")>>]
       ELSE [threads EXCEPT ![t].pc = "done", ![t].fault = "SystemExit"]
  /\ op' = "process"
  /\ UNCHANGED <<sys_stdout, uploads, context, stores>>
  /\ ThreadFrame

(***************************************************************************)
(* Specifications                                                          *)
(***************************************************************************)
\* the pipeline on every upload and every outcome of the model service
Next ==
  \/ Begin(SelBasic, Files, MaxHistory)
  \/ SaveUpload
  \/ Extract
  \/ Ask(LlmOutcomes)
  \/ Run
  \/ Finish

Spec == Init /\ [][Next]_vars

\* the pipeline on every page-selection string
NextSelection ==
  \/ Begin(SelStrings, FilesBasic, MaxHistorySelection)
  \/ SaveUpload
  \/ Extract
  \/ Ask(LlmBasic)
  \/ Run
  \/ Finish

SpecSelection == InitFresh /\ [][NextSelection]_vars

\* the pipeline on DOCX uploads
NextDocx ==
  \/ Begin(SelBasic, FilesDocx, MaxHistorySelection)
  \/ SaveUpload
  \/ Extract
  \/ Ask(LlmOutcomes)
  \/ Run
  \/ Finish

SpecDocx == Init /\ [][NextDocx]_vars

\* the credential store
NextCredentials ==
  \/ Authorize
  \/ Callback
  \/ GetCredentials
  \/ NewSession
  \/ Tick

SpecCredentials == Init /\ [][NextCredentials]_vars

\* the conversation and its stores
NextChat == Chat

SpecChat == Init /\ [][NextChat]_vars

\* the extractor
NextOcr == Ocr

SpecOcr == Init /\ [][NextOcr]_vars

\* the code extractor
NextExtract == ExtractCode

SpecExtract == InitFresh /\ [][NextExtract]_vars

\* the stores under direct chat turns and requests of the pipeline
NextStores ==
  \/ Chat
  \/ Begin({<<>>}, FilesBasic, MaxContext + 1)
  \/ SaveUpload
  \/ Extract
  \/ Ask(LlmBasic)
  \/ Run
  \/ Finish

SpecStores == InitHeld /\ [][NextStores]_vars

\* two requests served at the same time by two threads
NextThreads ==
  \E t \in Threads :
    \/ TBegin(t)
    \/ TSave(t)
    \/ TExtract(t)
    \/ TRemove(t)
    \/ TCombine(t)
    \/ TSend(t)
    \/ TReceive(t)
    \/ TEnter(t)
    \/ TExec(t)
    \/ TExit(t)
    \/ TRender(t)

SpecThreads == InitFresh /\ [][NextThreads]_vars

(***************************************************************************)
(* What the claims speak of                                                *)
(***************************************************************************)
\* a positive page index written in decimal digits
IsPageIndex(t) ==
  /\ t # <<>>
  /\ \A i \in 1..Len(t) : IsDecimalChar(t[i])
  /\ IntOf(t) >= 1

ValidEntry(entry) == IsPageIndex(Strip(entry))

\* the number of valid page numbers in a page-selection string
ValidCount(str) == Len(SelectSeq(Split(str, ","), ValidEntry))

\* a non-empty selection string with an entry that is no positive page index
Malformed(str) ==
  /\ str # <<>>
  /\ \E i \in 1..Len(Split(str, ",")) : ~ValidEntry(Split(str, ",")[i])

\* the (page marker, page text) pairs read off an extracted text
RECURSIVE PageEntries(_)
PageEntries(text) ==
  IF text = <<>> \/ text[1] # "--- Page " THEN <<>>
  ELSE LET e == IndexOf(text, " ---")
           body == SubSeq(text, e + 2, Len(text))
           n == IndexOf(body, "\n")
       IN <<[page_number |-> IntOf(SubSeq(text, 2, e - 1)), text |-> SubSeq(body, 1, n - 1)]>>
          \o PageEntries(SubSeq(body, n + 1, Len(body)))

Ascending(pages) == SortSeq(pages, LAMBDA a, b : a < b)

NoDuplicates(pages) == \A i, j \in 1..Len(pages) : i # j => pages[i] # pages[j]

\* a valid credential is held in the session or in token.json
ValidCredentialStored == Valid(session.credentials, clock) \/ Valid(token_json, clock)

\* the request in hand has been answered with the rendered result
Rendered ==
  /\ resp.kind = "render"
  /\ resp.combined_input = loc.combined_input
  /\ resp.generated_code = loc.generated_code

\* the interiors of the fenced blocks tagged as script code in a text, in order
RECURSIVE ScriptBlocks(_)
ScriptBlocks(text) ==
  IF text = <<>> THEN <<>>
  ELSE IF text[1] # FencePython THEN ScriptBlocks(Tail(text))
  ELSE LET body == Tail(text)
           closes == {i \in 1..Len(body) : body[i] \in {Fence, FencePython}}
       IN IF closes = {} THEN <<>>
          ELSE LET c == CHOOSE i \in closes : \A j \in closes : i <= j IN
               <<SubSeq(body, 1, c - 1)>> \o ScriptBlocks(SubSeq(body, c + 1, Len(body)))

\* the request in hand uploads a DOCX on which the conversion to PDF raises
ConversionFails ==
  /\ form.file_upload.present
  /\ PathKind(secure_filename(form.file_upload.filename)) = "docx"
  /\ form.file_upload.doc.fault = "convert"

\* the step is a chat turn that returned a response: the assistant's message
\* was appended to the context
TurnReturned ==
  /\ Len(context') > Len(context)
  /\ context'[Len(context')].role = "assistant"

\* the step wrote an exchange into one of the stores
ExchangeWritten ==
  \E f \in StoreNames : DOMAIN stores'[f].data # {} /\ stores'[f] # stores[f]

\* the step is a direct chat turn with the save flag set
SavedTurn == op' = "chat" /\ out'.call = "chat" /\ out'.save

\* a conversation: empty, or the system message followed by user and
\* assistant messages in turn, the user first
Alternating(ctx) ==
  \/ ctx = <<>>
  \/ /\ ctx[1].role = "system"
     /\ \A i \in 2..Len(ctx) : ctx[i].role = (IF i % 2 = 0 THEN "user" ELSE "assistant")

\* the token bundle of a credential: the fields credentials_to_dict carries
Bundle(creds) == [present |-> creds.present, token |-> creds.token]

\* the text of the file thread t uploaded
OwnText(t) ==
  ocr_image(PathKind(threads[t].filename), threads[t].file.doc, <<>>).text

(***************************************************************************)
(* C1: a fault raised by the generated script is caught and shown as a     *)
(* non-empty fault description in the execution output; it never escapes   *)
(* process(), which ends by rendering the result.                          *)
(* Fails: the except clause catches Exception, so SystemExit escapes.      *)
(***************************************************************************)
C1_ScriptFaultCaught ==
  (pc = "done" /\ eff.exec /\ RunScript(loc.generated_code, <<>>).fault # "none")
    => (Rendered /\ resp.execution_output # <<>>)

(***************************************************************************)
(* C2: when the LLM call fails or returns an empty response, process()     *)
(* does not abort: it renders the result with an empty generated script    *)
(* and an empty execution output, and executes nothing.                    *)
(* Fails: extract_code(None) raises TypeError in process().                *)
(***************************************************************************)
C2_LlmFaultDegrades ==
  (pc = "done" /\ eff.llm /\ loc.response_text = PyNone)
    => (Rendered /\ resp.generated_code = <<>> /\ resp.execution_output = <<>> /\ ~eff.exec)

(***************************************************************************)
(* C3: a callback whose state differs from the one issued by /authorize,   *)
(* or that arrives when the session holds no issued state, fails and       *)
(* writes neither the session's credentials nor token.json.                *)
(* Fails: with no state in the session the flow is built with state=None   *)
(* and the state of the callback is not compared with anything.            *)
(***************************************************************************)
C3_CallbackNeedsIssuedState ==
  [][(op' = "oauth2callback"
        /\ (session.state = "none" \/ out'.response_state # session.state))
      => (out'.failed
            /\ session'.credentials = session.credentials
            /\ token_json' = token_json)]_vars

(***************************************************************************)
(* C4: process() invokes the LLM only while a valid credential is stored   *)
(* (session or token.json).                                                *)
(* Fails: process() never consults get_credentials.                        *)
(***************************************************************************)
C4_LlmOnlyWithCredential == eff.llm => ValidCredentialStored

(***************************************************************************)
(* C5: for a PDF or converted DOCX of N pages and a non-empty selection S  *)
(* within 1..N, given in any order, the page markers of the extracted text *)
(* are the page numbers of S, each once, ascending, each followed by the   *)
(* text of that page.                                                      *)
(* Fails: the markers count the filtered images from 1, in the order of    *)
(* the selection.                                                          *)
(***************************************************************************)
C5_MarkersAreSelectedPages ==
  (/\ out.call = "ocr_image"
   /\ out.kind \in {"pdf", "docx"}
   /\ out.doc.fault = "none"
   /\ out.selected_pages # <<>>
   /\ NoDuplicates(out.selected_pages)
   /\ \A i \in 1..Len(out.selected_pages) : out.selected_pages[i] \in 1..out.doc.pages)
    => LET entries == PageEntries(out.text)
           pages == Ascending(out.selected_pages)
       IN /\ Len(entries) = Len(pages)
          /\ \A i \in 1..Len(pages) :
               /\ entries[i].page_number = pages[i]
               /\ entries[i].text = PageText(pages[i])

(***************************************************************************)
(* C6: a request whose page-selection string holds more than two valid     *)
(* page numbers is rejected with a message before any processing: no file  *)
(* is saved or read, the LLM is not invoked, no persisted-exchange store   *)
(* is touched, no script runs.                                             *)
(***************************************************************************)
C6_TooManyPagesRejected ==
  [][(pc' # "idle" /\ ValidCount(form'.selected_pages) > MaxSelected)
      => (/\ pc' = "done"
          /\ resp'.kind = "redirect"
          /\ resp'.flash # ""
          /\ eff' = NoEff
          /\ UNCHANGED <<uploads, context, stores>>)]_vars

\* C6, witness: a request with three valid page numbers and an upload was turned away
C6_Witness ==
  /\ pc = "done"
  /\ ValidCount(form.selected_pages) > MaxSelected
  /\ form.file_upload.present
  /\ resp.kind = "redirect"
  /\ uploads = <<>>

(***************************************************************************)
(* C7: a request whose page-selection string is malformed (an entry that   *)
(* is no positive page index) is rejected before extraction, and nothing   *)
(* downstream is attempted.                                                *)
(* Fails: the entries that are not digits are dropped without a word, and  *)
(* 0 is accepted.                                                          *)
(***************************************************************************)
C7_MalformedRejected ==
  (pc # "idle" /\ Malformed(form.selected_pages))
    => (pc = "done" /\ resp.kind = "redirect" /\ eff = NoEff)

(***************************************************************************)
(* C8: once a request that stored an upload has finished, normally or with *)
(* a fault, the file it stored is gone.                                    *)
(* Fails: the extension is taken from the sanitised name after the file is *)
(* saved; a name without a dot raises IndexError before os.remove.         *)
(***************************************************************************)
C8_UploadDeleted ==
  (pc = "done" /\ eff.saved) => loc.filename \notin DOMAIN uploads

(***************************************************************************)
(* C9: with no new authorization in between, a stored credential that a    *)
(* read of get_credentials judged invalid is not returned as valid by a    *)
(* later read.                                                             *)
(* Fails: the promotion into the session drops the expiry, and a           *)
(* credential without an expiry never counts as expired.                   *)
(***************************************************************************)
C9_InvalidStaysInvalid ==
  [][(/\ out.call = "get_credentials"
      /\ out.found
      /\ ~out.ret.present
      /\ op' = "get_credentials")
      => ~out'.ret.present]_vars

(***************************************************************************)
(* C10: after a chat turn with save set, the store read with the request   *)
(* string the caller passed to chat gives the response chat returned.      *)
(* Fails: the key is the request string with a space appended.             *)
(***************************************************************************)
C10_RoundTripByRequest ==
  (out.call = "chat" /\ out.save /\ ~out.raised /\ out.message # PyNone)
    => (/\ stores[Store4o].exists
        /\ out.message \in DOMAIN stores[Store4o].data
        /\ stores[Store4o].data[out.message] = out.value)

(***************************************************************************)
(* C11: for every response text, extract_code returns the empty string     *)
(* when the text holds no fenced block tagged as script code, and          *)
(* otherwise the interior of the first such block with leading and         *)
(* trailing whitespace removed, be there one block or several.             *)
(* A block runs from an opening fence tagged python to the next three      *)
(* back-ticks.                                                             *)
(***************************************************************************)
C11_ExtractsFirstBlock ==
  out.call = "extract_code"
    => LET blocks == ScriptBlocks(out.response_text) IN
       out.value = IF blocks = <<>> THEN <<>> ELSE Strip(blocks[1])

\* C11, witness: a response with several blocks, the first one with whitespace
\* around a script that is not the script of the second
C11_Witness ==
  /\ out.call = "extract_code"
  /\ LET blocks == ScriptBlocks(out.response_text) IN
     /\ Len(blocks) >= 2
     /\ blocks[1] # Strip(blocks[1])
     /\ Strip(blocks[1]) # Strip(blocks[2])
     /\ out.value = Strip(blocks[1])
     /\ out.value # <<>>

C13_OnlySavedTurnsPersist ==
  [][/\ ExchangeWritten => (SavedTurn /\ TurnReturned)
     /\ (TurnReturned /\ ~SavedTurn) => \A f \in StoreNames : stores'[f] = EmptyStore]_vars

\* C13, witness: a chat turn without the save flag returned a response while
\* each of the three stores held an exchange, and left them empty
C13_Witness ==
  /\ op = "chat"
  /\ out.call = "chat"
  /\ ~out.save
  /\ ~out.raised
  /\ \A f \in StoreNames : DOMAIN out.before[f].data # {}
  /\ \A f \in StoreNames : stores[f] = EmptyStore

(***************************************************************************)
(* C14: for a request with free text and no file the extracted text is     *)
(* empty, the combined input is the user's text, and the model service is  *)
(* called with a context of length 2: the system message, then the user    *)
(* message of this request; when the response holds no fenced block the    *)
(* result is rendered with an empty script and an empty execution output.  *)
(* Fails: gpt4o is one instance for the whole process and its context is   *)
(* never reset, so a later request sends the messages of earlier requests  *)
(* as well.                                                                *)
(***************************************************************************)
C14_TextOnlyRequest ==
  (eff.llm /\ form.text_input # <<>> /\ ~form.file_upload.present)
    => (/\ loc.ocr_text = <<>>
        /\ loc.combined_input = form.text_input
        /\ Len(eff.sent) = 2
        /\ eff.sent[1] = SystemMessage
        /\ eff.sent[2] = [role |-> "user", content |-> Prompt(form.text_input) \o <<" ">>]
        /\ (pc = "done" /\ loc.response_text # PyNone
              /\ ScriptBlocks(loc.response_text) = <<>>)
            => (Rendered /\ resp.generated_code = <<>> /\ resp.execution_output = <<>>))

(***************************************************************************)
(* C15: after any sequence of chat calls, those in which the request to    *)
(* the model service fails included, the context is empty or one system    *)
(* message followed by user and assistant messages in strict alternation,  *)
(* the user first: no second system message, no two user messages in a     *)
(* row.                                                                    *)
(* Fails: the user message is appended before the request is made and      *)
(* stays when the request raises; the next call appends a second one.      *)
(***************************************************************************)
C15_ContextAlternates == Alternating(context)

(***************************************************************************)
(* C16: when ocr_image has created the intermediate PDF of a DOCX (the     *)
(* conversion did not fail), the intermediate PDF is deleted by the time   *)
(* ocr_image returns, whatever the outcome: also when rasterizing or OCR   *)
(* raises and the empty text is returned.                                  *)
(* Fails: os.remove(temp_pdf) is the last statement of the branch, not in  *)
(* a finally clause; a fault before it leaves the file behind.             *)
(***************************************************************************)
C16_TempPdfDeleted ==
  (out.call = "ocr_image" /\ out.kind = "docx" /\ out.doc.fault # "convert")
    => out.temp_pdf = "removed"

(***************************************************************************)
(* C17: get_credentials consults the session first and reads token.json    *)
(* only when the session holds no credential: with a credential in the     *)
(* session the result is that credential or none and the session is left   *)
(* as it was; with none in the session and one in token.json the read      *)
(* copies it into the session, which then holds the token bundle of the    *)
(* file; with neither the result is none and the session stays without a   *)
(* credential.  The read never writes token.json.                          *)
(***************************************************************************)
C17_SessionFirstThenPromote ==
  [][op' = "get_credentials"
      => (/\ token_json' = token_json
          /\ session.credentials.present
               => (/\ session' = session
                   /\ out'.ret \in {NoCred, session.credentials})
          /\ (~session.credentials.present /\ token_json.present)
               => (/\ session'.credentials.present
                   /\ Bundle(session'.credentials) = Bundle(token_json)
                   /\ session'.state = session.state)
          /\ (~session.credentials.present /\ ~token_json.present)
               => (out'.ret = NoCred /\ session' = session))]_vars

\* C17, witness: a read that found the session without a credential has
\* copied the credential of token.json into it
C17_Witness ==
  /\ op = "get_credentials"
  /\ out.call = "get_credentials"
  /\ ~out.had
  /\ token_json.present
  /\ session.credentials.present
  /\ Bundle(session.credentials) = Bundle(token_json)

(***************************************************************************)
(* C18: with requests served at the same time by threads of one process,   *)
(* the execution output captured for a request holds only what its own     *)
(* script wrote to standard output, and once the scripts have finished,    *)
(* with or without a fault, sys.stdout is the original target again.       *)
(* Fails: redirect_stdout swaps the one sys.stdout of the process, so the  *)
(* prints of the other thread land in the StringIO, and two overlapping    *)
(* with blocks restore sys.stdout in the wrong order.                      *)
(***************************************************************************)
C18_OutputIsOwnScript ==
  /\ \A t \in Threads :
       (threads[t].pc = "done" /\ threads[t].fault = "" /\ threads[t].raised = "none")
         => \A i \in 1..Len(threads[t].execution_output) :
              threads[t].execution_output[i] = Written(t, "script")
  /\ (\A t \in Threads : threads[t].pc \notin {"exec", "exit"}) => sys_stdout = Console

(***************************************************************************)
(* C19: when two requests served at the same time upload files with the    *)
(* same sanitised name, each extracts the text of the file it uploaded,    *)
(* the file of a request stays in place until that request removes it, and *)
(* neither request ends with a fault of the save, extract or delete step.  *)
(* Fails: both requests use the one path uploads/<name>: the later save    *)
(* overwrites the earlier file, the earlier os.remove deletes the file of  *)
(* the other, whose own os.remove then raises FileNotFoundError.           *)
(***************************************************************************)
C19_SameNameUploadsIsolated ==
  (\A t, u \in Threads :
      threads[t].file.present /\ threads[t].filename = threads[u].filename)
    => \A t \in Threads :
         /\ threads[t].pc \in {"extract", "remove"}
              => (/\ threads[t].filename \in DOMAIN uploads
                  /\ uploads[threads[t].filename] = threads[t].file.doc)
         /\ threads[t].pc \notin {"idle", "save", "extract"}
              => threads[t].ocr_text = OwnText(t)
         /\ threads[t].fault \notin {"IndexError", "FileNotFoundError"}

====
